---- MODULE Spec2Model ----
(***************************************************************************)
(* State-machine model of the SREF search front end (static/js/app.js):    *)
(* the SREFSearch object, the global click handlers and the auto-advance   *)
(* timers of the result cards.                                             *)
(*                                                                         *)
(* A text is a sequence of tokens, each a blank " " or a word without      *)
(* white space.  The argument of performSearch(query = null) is a text;    *)
(* the empty text stands for both null and "", which JavaScript's ||       *)
(* treats alike.                                                           *)
(***************************************************************************)
EXTENDS Integers, Sequences, FiniteSets, TLC

\* ------------------------------------------------------------- bounds
MaxStrLen == 1          \* longest text typed or passed as a tag
NumCodes == 19          \* style codes in the store (three pages of results)
MaxRequests == 2        \* fetches of /search and /similar in one run
MaxClosures == 2        \* startAutoAdvance closures alive at once
MaxClick == 1           \* cards of a page, from its first, that get clicked
MaxTags == 7            \* longest tag list the /tags endpoint answers with
RandomGrain == 2        \* Math.random() returns k / RandomGrain, 0 <= k < RandomGrain
MaxPhrases == 6         \* theme phrases in the summary of a result
MaxModals == 2          \* image modals that are open or still listening
MaxNavigate == 2        \* cards of a page whose carousel arrows are clicked

\* ------------------------------------------------- program constants
resultsPerPage == 9
DisplayedTagCount == 6
CardTagCount == 5
MinTagLength == 3

\* --------------------------------------------------------------- text
Chars == {"a", "b", " "}

Strings == UNION {[1..n -> Chars] : n \in 0..MaxStrLen}

IsSpace(c) == c = " "

RECURSIVE TrimStart(_)
TrimStart(s) ==
    IF s = <<>> THEN s
    ELSE IF IsSpace(Head(s)) THEN TrimStart(Tail(s)) ELSE s

RECURSIVE TrimEnd(_)
TrimEnd(s) ==
    IF s = <<>> THEN s
    ELSE IF IsSpace(s[Len(s)]) THEN TrimEnd(SubSeq(s, 1, Len(s) - 1)) ELSE s

\* String.prototype.trim
Trim(s) == TrimEnd(TrimStart(s))

\* a string is truthy unless it is empty (null is modelled as empty too)
Truthy(s) == s # <<>>

Min(a, b) == IF a < b THEN a ELSE b

\* Math.ceil(n / d) for n >= 0, d > 0
Ceil(n, d) == (n + d - 1) \div d

Max(a, b) == IF a > b THEN a ELSE b

\* an index of slice: a negative one counts from the end, and it is clamped
SliceIndex(k, length) ==
    IF k < 0 THEN Max(length + k, 0) ELSE Min(k, length)

\* Array.prototype.slice(start, end) with 0-based, end-exclusive indices
Slice(a, start, end) ==
    SubSeq(a, SliceIndex(start, Len(a)) + 1, SliceIndex(end, Len(a)))

\* ------------------------------------------------------- extractTags
\* A summary is a text whose tokens may also be the label "Key themes:", a
\* comma and a line break.
Label == "Key themes:"
Comma == ","
Newline == "\n"

\* the number of characters of a text
RECURSIVE TextLength(_)
TextLength(s) == IF s = <<>> THEN 0 ELSE Len(Head(s)) + TextLength(Tail(s))

\* String.prototype.split(sep): the pieces between the sep tokens of s, the
\* last piece being `piece` followed by what is left of s
RECURSIVE SplitFrom(_, _, _)
SplitFrom(s, sep, piece) ==
    IF s = <<>> THEN <<piece>>
    ELSE IF Head(s) = sep THEN <<piece>> \o SplitFrom(Tail(s), sep, <<>>)
    ELSE SplitFrom(Tail(s), sep, Append(piece, Head(s)))

Split(s, sep) == SplitFrom(s, sep, <<>>)

\* where /Key themes: (.+)/ can match: the label, a blank and at least one
\* more character of the same line
MatchAt(s, i) ==
    /\ i + 2 <= Len(s)
    /\ s[i] = Label /\ s[i + 1] = " " /\ s[i + 2] # Newline

\* the end of the line that holds position i
RECURSIVE LineEnd(_, _)
LineEnd(s, i) ==
    IF i >= Len(s) \/ s[i + 1] = Newline THEN i ELSE LineEnd(s, i + 1)

\* match[1] of the leftmost match: the rest of the line after the label
Captured(s) ==
    LET i == CHOOSE k \in 1..Len(s) :
                 MatchAt(s, k) /\ \A j \in 1..(k - 1) : ~MatchAt(s, j)
    IN  SubSeq(s, i + 2, LineEnd(s, i + 2))

\* tag.trim().split(" ")[0]
FirstWord(tag) == Head(Split(Trim(tag), " "))

FirstWords(phrases) == [i \in 1..Len(phrases) |-> FirstWord(phrases[i])]

\* words of two characters kept as well
LongEnough_AtLeastTwo(tag) == TextLength(tag) >= MinTagLength - 1

LongEnough(tag) == TextLength(tag) >= MinTagLength

\* the first 5 words cut off before the short ones are dropped
KeepTags_SliceFirst(words) ==
    SelectSeq(Slice(words, 0, CardTagCount), LongEnough)

\* .filter((tag) => tag.length > 2).slice(0, 5)
KeepTags(words) == Slice(SelectSeq(words, LongEnough), 0, CardTagCount)

DefaultTags == << <<"visual">>, <<"style">> >>

extractTags(text) ==
    IF \E i \in 1..Len(text) : MatchAt(text, i)
    THEN KeepTags(FirstWords(Split(Captured(text), Comma)))
    ELSE DefaultTags

\* ----------------------------------------------- the summaries received
\* The search service writes the summary of a result from its theme phrases,
\* each a word or two, some followed by a count, with blanks around them.
ThemePhrases ==
    { <<"art">>,
      <<" ", "ink", " ", "(12)">>,
      <<" ", "3d", " ", "render">>,
      <<" ", " ", "dark", " ", "moody", " ">>,
      <<" ">> }

ThemeLists == UNION {[1..n -> ThemePhrases] : n \in 0..MaxPhrases}

RECURSIVE Join(_, _)
Join(phrases, sep) ==
    IF phrases = <<>> THEN <<>>
    ELSE IF Len(phrases) = 1 THEN Head(phrases)
    ELSE Head(phrases) \o <<sep>> \o Join(Tail(phrases), sep)

\* what may follow the themes: nothing, or a further line
SummaryTails == {<<>>, <<Newline, "Images:", " ", "4">>}

\* "Key themes: p1,p2,..." and what follows it; a result without themes has
\* a summary without the label
SummaryText(phrases, tail) ==
    IF phrases = <<>> THEN <<"No", " ", "themes">> \o tail
    ELSE <<Label, " ">> \o Join(phrases, Comma) \o tail

\* ------------------------------------------------- the server's answers
\* The /search, /similar and /tags endpoints are not part of the front end;
\* their answers are inputs.  A result is {sref_code, thumbnails, summary}; a
\* thumbnail file name is the pair <<code, position>>.
Codes == 1..NumCodes

\* how many thumbnails the store holds for a code: the first card of page 1
\* has three, that of page 2 none, that of page 3 two, every other card one
ThumbCount(c) ==
    IF c = 1 THEN 3
    ELSE IF c = resultsPerPage + 1 THEN 0
    ELSE IF c = 2 * resultsPerPage + 1 THEN 2
    ELSE 1

\* the themes of a code: the first code has two, the others none
CodeThemes(c) ==
    IF c = 1 THEN << <<"art">>, <<" ", "ink", " ", "(12)">> >> ELSE <<>>

Result(c) ==
    [sref_code |-> c,
     thumbnails |-> [i \in 1..ThumbCount(c) |-> <<c, i>>],
     summary |-> SummaryText(CodeThemes(c), <<>>)]

ResultLens == {0, resultsPerPage, NumCodes}

\* the first n store entries
Ranked(n) == [i \in 1..n |-> Result(i)]

\* /search: {query, results}
SearchResults == {Ranked(n) : n \in ResultLens}

\* /similar: {reference_sref, results}; the ranking leaves the reference out
SimilarResults(ref) ==
    LET NotRef(r) == r.sref_code # ref
    IN  {SelectSeq(l, NotRef) : l \in SearchResults}

\* why a request failed: the server's error string with a non-OK status, a
\* non-OK status without one, or an exception thrown by fetch / json()
ServerError == "index not loaded"
NetworkError == "Failed to fetch"
Failures == {"error", "status", "throw"}

\* ---------------------------------------------------------------- state
VARIABLES
    searchInput,          \* searchInput.value
    errorText,            \* errorText.textContent
    errorHidden,          \* errorMessage has class "hidden"
    loadingHidden,        \* loadingIndicator has class "hidden"
    resultsHidden,        \* resultsSection has class "hidden"
    paginationHidden,     \* pagination has class "hidden"
    prevDisabled,         \* prevButton.disabled
    nextDisabled,         \* nextButton.disabled
    paginationInfo,       \* paginationInfo.textContent, <<page, totalPages>>
    resultsTitle,         \* resultsTitle.textContent
    resultsContainer,     \* the cards in resultsContainer
    noResults,            \* resultsContainer shows the "no-results" text
    allResults,
    currentResults,
    currentPage,
    pending,              \* fetches in flight, in the order issued
    issued,               \* how many fetches were issued so far
    closures,             \* startAutoAdvance closures that can still run
    autoAdvanceTimeouts,  \* Map code -> timer handle
    autoAdvanceIntervals, \* Map code -> timer handle
    availableTags,
    displayedTags,
    tagsPc,               \* loadTags: "fetching" or "done"
    themes,               \* the theme phrases behind the summary below
    summary,              \* result.summary of a card looked at on its own
    cardTags,             \* what extractTags returned for it
    modals,               \* the image modals that are open or still listening
    uncaughtError         \* an event listener ended in an exception

uiVars == <<searchInput, errorText, errorHidden, loadingHidden, resultsHidden,
            paginationHidden, prevDisabled, nextDisabled, paginationInfo,
            resultsTitle>>
resultVars == <<resultsContainer, noResults, allResults, currentResults,
                currentPage>>
timerVars == <<closures, autoAdvanceTimeouts, autoAdvanceIntervals>>
tagVars == <<availableTags, displayedTags, tagsPc>>
reqVars == <<pending, issued>>
cardVars == <<themes, summary, cardTags>>
modalVars == <<modals, uncaughtError>>
vars == <<uiVars, resultVars, timerVars, tagVars, reqVars, cardVars, modalVars>>

\* ------------------------------------------------------ Map operations
EmptyMap == [k \in {} |-> 0]
MapSet(m, k, v) == [x \in DOMAIN m \cup {k} |-> IF x = k THEN v ELSE m[x]]
MapDelete(m, k) == [x \in DOMAIN m \ {k} |-> m[x]]
MapValues(m) == {m[k] : k \in DOMAIN m}

\* ------------------------------------------------- auto-advance timers
\* A closure is one call of startAutoAdvance that got past its early return:
\* its card's code, its local variables and the one timer it has pending
\* (phase "timeout": the initial wait, "interval": the advancing interval,
\* "cycle": the wait between two cycles, "dead": none).  A timer handle is
\* the identity of the closure whose pending timer it is; StaleHandle is the
\* handle of a timer that fired or was cleared.
StaleHandle == 0
ClosureIds == 1..MaxClosures

NewClosure(code, total) ==
    [code |-> code, totalImages |-> total, currentIndex |-> 0,
     isPaused |-> FALSE, phase |-> "timeout"]

\* clearTimeout / clearInterval on every handle of hs
ClearTimers(cl, hs, phases) ==
    [c \in DOMAIN cl |->
        IF c \in hs /\ cl[c].phase \in phases
        THEN [cl[c] EXCEPT !.phase = "dead"] ELSE cl[c]]

\* a timer that fired is no longer pending: its handle goes stale
Expire(m, c) ==
    [k \in DOMAIN m |-> IF m[k] = c THEN StaleHandle ELSE m[k]]

\* closures no card of the container belongs to, and with no timer pending,
\* can never run again
Collect(cl, cards) ==
    LET keep == {c \in DOMAIN cl :
                    \/ cl[c].phase # "dead"
                    \/ \E i \in 1..Len(cards) : cards[i].closure = c}
    IN  [c \in keep |-> cl[c]]

Timers(cl, to, iv) == [closures |-> cl, timeouts |-> to, intervals |-> iv]

\* the intervals forgotten without clearInterval
stopAllAutoAdvance_MapsOnly(t) ==
    LET c2 == ClearTimers(t.closures, MapValues(t.timeouts), {"timeout", "cycle"})
    IN  Timers(c2, EmptyMap, EmptyMap)

stopAllAutoAdvance(t) ==
    LET c1 == ClearTimers(t.closures, MapValues(t.intervals), {"interval"})
        c2 == ClearTimers(c1, MapValues(t.timeouts), {"timeout", "cycle"})
    IN  Timers(c2, EmptyMap, EmptyMap)

FreeId(cl) == CHOOSE c \in ClosureIds \ DOMAIN cl :
                 \A d \in ClosureIds \ DOMAIN cl : c <= d

\* `/static/images/${thumb}`
ImageUrl(thumb) == <<"/static/images/", thumb>>

\* the src of the <img> elements made for a list of thumbnails
ImageUrls(thumbnails) == [i \in 1..Len(thumbnails) |-> ImageUrl(thumbnails[i])]

\* the dots of a card of n images that carry the class "active" when the
\* dot whose index is k gets it and every other dot loses it
ActiveDots(n, k) == {index \in 0..(n - 1) : index = k}

createResultCard(result) ==
    [sref_code |-> result.sref_code,
     srcs |-> ImageUrls(result.thumbnails),
     tags |-> extractTags(result.summary),
     images |-> Len(result.thumbnails),
     current |-> 0,
     active |-> ActiveDots(Len(result.thumbnails), 0),
     closure |-> 0]

\* one card appended and startAutoAdvance(card, code) called on it
startAutoAdvance(st, result) ==
    LET card == createResultCard(result)
        t == st.timers
    IN  IF card.images <= 1
        THEN [cards |-> Append(st.cards, card), timers |-> t]
        ELSE LET id == FreeId(t.closures)
                 cl == [c \in DOMAIN t.closures \cup {id} |->
                          IF c = id
                          THEN NewClosure(result.sref_code, card.images)
                          ELSE t.closures[c]]
             IN  [cards |-> Append(st.cards, [card EXCEPT !.closure = id]),
                  timers |-> Timers(cl,
                                    MapSet(t.timeouts, result.sref_code, id),
                                    t.intervals)]

RECURSIVE StartEach(_, _)
StartEach(st, results) ==
    IF results = <<>> THEN st
    ELSE StartEach(startAutoAdvance(st, Head(results)), Tail(results))

PageStart(page) == (page - 1) * resultsPerPage

\* a page that starts one entry late
PageSlice_OffByOne(all, page) ==
    Slice(all, PageStart(page) + 1, PageStart(page) + resultsPerPage)

\* this.allResults.slice(startIndex, endIndex)
PageSlice(all, page) ==
    Slice(all, PageStart(page), PageStart(page) + resultsPerPage)

\* closures displayCurrentPage would create for these results
Animated(results) ==
    Cardinality({i \in 1..Len(results) : Len(results[i].thumbnails) > 1})

\* displayCurrentPage: the container is emptied, which detaches the old cards
displayCurrentPage(all, page, t) ==
    LET shown == PageSlice(all, page)
        t0 == Timers(Collect(t.closures, <<>>), t.timeouts, t.intervals)
        st == StartEach([cards |-> <<>>, timers |-> t0], shown)
    IN  [currentResults |-> shown, cards |-> st.cards, timers |-> st.timers]

\* whether the closures displayCurrentPage needs are within MaxClosures
CanDisplay(all, page, t) ==
    Cardinality(DOMAIN Collect(t.closures, <<>>))
        + Animated(PageSlice(all, page)) <= MaxClosures

TotalPages(all) == Ceil(Len(all), resultsPerPage)

\* updatePagination, on the pagination widget pg =
\* [hidden, prevDisabled, nextDisabled, info]
updatePagination(all, page, pg) ==
    LET totalPages == TotalPages(all)
    IN  IF totalPages <= 1
        THEN [pg EXCEPT !.hidden = TRUE]
        ELSE [hidden |-> FALSE,
              prevDisabled |-> (page = 1),
              nextDisabled |-> (page = totalPages),
              info |-> <<page, totalPages>>]

Pagination ==
    [hidden |-> paginationHidden, prevDisabled |-> prevDisabled,
     nextDisabled |-> nextDisabled, info |-> paginationInfo]

SetPagination(pg) ==
    /\ paginationHidden' = pg.hidden
    /\ prevDisabled' = pg.prevDisabled
    /\ nextDisabled' = pg.nextDisabled
    /\ paginationInfo' = pg.info

CurrentTimers == Timers(closures, autoAdvanceTimeouts, autoAdvanceIntervals)

SetTimers(t) ==
    /\ closures' = t.closures
    /\ autoAdvanceTimeouts' = t.timeouts
    /\ autoAdvanceIntervals' = t.intervals

\* ---------------------------------------------------------- messages
EmptyQueryMessage == <<"Please enter a search term">>

\* error.message of the Error a failed request ends in
ErrorMessage(failure, fallback) ==
    CASE failure = "error" -> ServerError
      [] failure = "status" -> fallback
      [] failure = "throw" -> NetworkError

SearchFailedMessage(failure) ==
    <<"Search failed: ", ErrorMessage(failure, "Search failed")>>

SimilarFailedMessage(failure) ==
    <<"Similar search failed: ", ErrorMessage(failure, "Similar search failed")>>

Title(kind, query, ref) == [kind |-> kind, query |-> query, ref |-> ref]

\* the fetch issued after `n` others
Request(n, kind, query, ref) ==
    [id |-> n + 1, kind |-> kind, query |-> query, ref |-> ref]

\* ---------------------------------------------------------------- Init
Init ==
    /\ searchInput = <<>>
    /\ errorText = <<>>
    /\ errorHidden = TRUE
    /\ loadingHidden = TRUE
    /\ resultsHidden = TRUE
    /\ paginationHidden = TRUE
    /\ prevDisabled = FALSE
    /\ nextDisabled = FALSE
    /\ paginationInfo = <<>>
    /\ resultsTitle = Title("none", <<>>, 0)
    /\ resultsContainer = <<>>
    /\ noResults = FALSE
    /\ allResults = <<>>
    /\ currentResults = <<>>
    /\ currentPage = 1
    /\ pending = <<>>
    /\ issued = 0
    /\ closures = EmptyMap
    /\ autoAdvanceTimeouts = EmptyMap
    /\ autoAdvanceIntervals = EmptyMap
    /\ availableTags = <<>>
    /\ displayedTags = <<>>
    /\ tagsPc = "fetching"
    /\ themes = <<>>
    /\ summary = <<>>
    /\ cardTags = <<>>
    /\ modals = <<>>
    /\ uncaughtError = FALSE

\* ------------------------------------------------------------- search
\* the query performSearch goes on with
SearchQuery(input, query) == IF Truthy(query) THEN query ELSE Trim(input)

\* performSearch with the blank check moved below hideResults()
performSearch_LateCheck(input, query) ==
    LET searchQuery == SearchQuery(input, query)
    IN  /\ resultsHidden' = TRUE
        /\ SetTimers(stopAllAutoAdvance(CurrentTimers))
        /\ IF ~Truthy(searchQuery)
           THEN /\ errorText' = EmptyQueryMessage
                /\ errorHidden' = FALSE
                /\ UNCHANGED <<loadingHidden, reqVars>>
           ELSE /\ issued < MaxRequests
                /\ loadingHidden' = FALSE
                /\ errorHidden' = TRUE
                /\ pending' = Append(pending,
                                     Request(issued, "search", searchQuery, 0))
                /\ issued' = issued + 1
                /\ UNCHANGED errorText
        /\ UNCHANGED <<paginationHidden, prevDisabled, nextDisabled,
                       paginationInfo, resultsTitle, resultVars>>

\* performSearch(query) up to its await, the input field holding `input`
performSearch(input, query) ==
    LET searchQuery == SearchQuery(input, query)
    IN  IF ~Truthy(searchQuery)
        THEN /\ errorText' = EmptyQueryMessage
             /\ errorHidden' = FALSE
             /\ UNCHANGED <<loadingHidden, resultsHidden, paginationHidden,
                            prevDisabled, nextDisabled, paginationInfo,
                            resultsTitle, resultVars, timerVars, reqVars>>
        ELSE /\ issued < MaxRequests
             /\ loadingHidden' = FALSE
             /\ errorHidden' = TRUE
             /\ resultsHidden' = TRUE
             /\ SetTimers(stopAllAutoAdvance(CurrentTimers))
             /\ pending' = Append(pending, Request(issued, "search", searchQuery, 0))
             /\ issued' = issued + 1
             /\ UNCHANGED <<errorText, paginationHidden, prevDisabled,
                            nextDisabled, paginationInfo, resultsTitle,
                            resultVars>>

\* the user edits the search field
TypeInput(s) ==
    /\ searchInput' = s
    /\ UNCHANGED <<errorText, errorHidden, loadingHidden, resultsHidden,
                   paginationHidden, prevDisabled, nextDisabled,
                   paginationInfo, resultsTitle, resultVars, timerVars,
                   tagVars, cardVars, modalVars, reqVars>>

\* the focus listener of the search field
FocusInput ==
    /\ errorHidden' = TRUE
    /\ UNCHANGED <<searchInput, errorText, loadingHidden, resultsHidden,
                   paginationHidden, prevDisabled, nextDisabled,
                   paginationInfo, resultsTitle, resultVars, timerVars,
                   tagVars, cardVars, modalVars, reqVars>>

\* the search button, or Enter in the search field
ClickSearch ==
    /\ performSearch(searchInput, <<>>)
    /\ UNCHANGED <<searchInput, tagVars, cardVars, modalVars>>

\* the search started from the text the field held before the click
searchExample_StaleInput(query) ==
    /\ searchInput' = query
    /\ performSearch(searchInput, <<>>)
    /\ UNCHANGED <<tagVars, cardVars, modalVars>>

\* a click on one of the example tags shown
searchExample(query) ==
    /\ searchInput' = query
    /\ performSearch(query, <<>>)
    /\ UNCHANGED <<tagVars, cardVars, modalVars>>

CardsVisible == ~resultsHidden /\ resultsContainer # <<>>

\* a click on a tag of a result card
searchByTag(tag) ==
    /\ CardsVisible
    /\ searchInput' = tag
    /\ performSearch(tag, tag)
    /\ UNCHANGED <<tagVars, cardVars, modalVars>>

\* the onclick of the k-th example tag shown
ClickExampleTag(k) ==
    /\ k \in 1..Len(displayedTags)
    /\ searchExample(displayedTags[k])

\* the onclick of the k-th tag of card i
ClickCardTag(i, k) ==
    /\ i \in 1..Len(resultsContainer)
    /\ k \in 1..Len(resultsContainer[i].tags)
    /\ searchByTag(resultsContainer[i].tags[k])

\* the page the user was on kept when an answer arrives
FirstPage_Kept(page) == page

\* this.currentPage = 1, whatever the page was
FirstPage(page) == 1

\* allResults = data.results; currentPage = 1; then displayResults or
\* displaySimilarResults
DisplayData(title, results) ==
    /\ resultsTitle' = title
    /\ allResults' = results
    /\ currentPage' = FirstPage(currentPage)
    /\ resultsHidden' = FALSE
    /\ IF Len(results) = 0
       THEN /\ resultsContainer' = <<>>
            /\ noResults' = TRUE
            /\ SetTimers(Timers(Collect(closures, <<>>), autoAdvanceTimeouts,
                                autoAdvanceIntervals))
            /\ UNCHANGED <<currentResults, paginationHidden, prevDisabled,
                           nextDisabled, paginationInfo>>
       ELSE /\ CanDisplay(results, FirstPage(currentPage), CurrentTimers)
            /\ SetPagination(updatePagination(results, FirstPage(currentPage),
                                              Pagination))
            /\ LET d == displayCurrentPage(results, FirstPage(currentPage),
                                          CurrentTimers)
               IN  /\ currentResults' = d.currentResults
                   /\ resultsContainer' = d.cards
                   /\ SetTimers(d.timers)
            /\ noResults' = FALSE

\* the answer appended to the results already held instead of replacing them
Display_Appended(title, results) == DisplayData(title, allResults \o results)

\* what a successful answer {title, results} does to the page
Display(title, results) == DisplayData(title, results)

\* the rest of performSearch once the fetch of pending[i] has settled
SearchResponded(i, results) ==
    /\ i \in 1..Len(pending)
    /\ pending[i].kind = "search"
    /\ pending' = SubSeq(pending, 1, i - 1) \o SubSeq(pending, i + 1, Len(pending))
    /\ Display(Title("results", pending[i].query, 0), results)
    /\ loadingHidden' = TRUE
    /\ UNCHANGED <<searchInput, errorText, errorHidden, tagVars, cardVars, modalVars, issued>>

SearchFailed(i, failure) ==
    /\ i \in 1..Len(pending)
    /\ pending[i].kind = "search"
    /\ pending' = SubSeq(pending, 1, i - 1) \o SubSeq(pending, i + 1, Len(pending))
    /\ errorText' = SearchFailedMessage(failure)
    /\ errorHidden' = FALSE
    /\ loadingHidden' = TRUE
    /\ UNCHANGED <<searchInput, resultsHidden, paginationHidden, prevDisabled,
                   nextDisabled, paginationInfo, resultsTitle, resultVars,
                   timerVars, tagVars, cardVars, modalVars, issued>>

\* -------------------------------------------------------- find similar
SimilarInput(srefCode) == <<"Similar", " ", "to", " ", ToString(srefCode)>>

\* findSimilarSREFs(srefCode) up to its await: the similar button of card i
findSimilarSREFs(i) ==
    /\ CardsVisible
    /\ i \in 1..Len(resultsContainer)
    /\ issued < MaxRequests
    /\ loadingHidden' = FALSE
    /\ errorHidden' = TRUE
    /\ resultsHidden' = TRUE
    /\ SetTimers(stopAllAutoAdvance(CurrentTimers))
    /\ pending' = Append(pending, Request(issued, "similar", <<>>,
                                          resultsContainer[i].sref_code))
    /\ issued' = issued + 1
    /\ UNCHANGED <<searchInput, errorText, paginationHidden, prevDisabled,
                   nextDisabled, paginationInfo, resultsTitle, resultVars,
                   tagVars, cardVars, modalVars>>

SimilarResponded(i, results) ==
    /\ i \in 1..Len(pending)
    /\ pending[i].kind = "similar"
    /\ results \in SimilarResults(pending[i].ref)
    /\ pending' = SubSeq(pending, 1, i - 1) \o SubSeq(pending, i + 1, Len(pending))
    /\ searchInput' = SimilarInput(pending[i].ref)
    /\ Display(Title("similar", <<>>, pending[i].ref), results)
    /\ loadingHidden' = TRUE
    /\ UNCHANGED <<errorText, errorHidden, tagVars, cardVars, modalVars, issued>>

\* the input rewritten before response.ok is looked at
SimilarFailed_InputFirst(i, failure) ==
    /\ i \in 1..Len(pending)
    /\ pending[i].kind = "similar"
    /\ pending' = SubSeq(pending, 1, i - 1) \o SubSeq(pending, i + 1, Len(pending))
    /\ searchInput' = SimilarInput(pending[i].ref)
    /\ errorText' = SimilarFailedMessage(failure)
    /\ errorHidden' = FALSE
    /\ loadingHidden' = TRUE
    /\ UNCHANGED <<resultsHidden, paginationHidden, prevDisabled,
                   nextDisabled, paginationInfo, resultsTitle, resultVars,
                   timerVars, tagVars, cardVars, modalVars, issued>>

SimilarFailed(i, failure) ==
    /\ i \in 1..Len(pending)
    /\ pending[i].kind = "similar"
    /\ pending' = SubSeq(pending, 1, i - 1) \o SubSeq(pending, i + 1, Len(pending))
    /\ errorText' = SimilarFailedMessage(failure)
    /\ errorHidden' = FALSE
    /\ loadingHidden' = TRUE
    /\ UNCHANGED <<searchInput, resultsHidden, paginationHidden, prevDisabled,
                   nextDisabled, paginationInfo, resultsTitle, resultVars,
                   timerVars, tagVars, cardVars, modalVars, issued>>

\* ----------------------------------------------------------- paging
\* previousPage (step = -1) and nextPage (step = 1) past their guards
TurnPage(step) ==
    LET t == stopAllAutoAdvance(CurrentTimers)
        page == currentPage + step
        d == displayCurrentPage(allResults, page, t)
    IN  /\ CanDisplay(allResults, page, t)
        /\ currentPage' = page
        /\ currentResults' = d.currentResults
        /\ resultsContainer' = d.cards
        /\ noResults' = FALSE
        /\ SetTimers(d.timers)
        /\ SetPagination(updatePagination(allResults, page, Pagination))
        /\ UNCHANGED <<searchInput, errorText, errorHidden, loadingHidden,
                       resultsHidden, resultsTitle, allResults, tagVars, cardVars, modalVars,
                       reqVars>>

\* previousPage without its test of currentPage
previousPage_Unguarded ==
    /\ ~paginationHidden /\ ~prevDisabled
    /\ TurnPage(-1)

\* the Previous / Next buttons can be clicked while shown and enabled
previousPage ==
    /\ ~paginationHidden /\ ~prevDisabled
    /\ IF currentPage > 1 THEN TurnPage(-1) ELSE UNCHANGED vars

nextPage ==
    /\ ~paginationHidden /\ ~nextDisabled
    /\ IF currentPage < TotalPages(allResults) THEN TurnPage(1)
       ELSE UNCHANGED vars

\* --------------------------------------------------------- carousel
\* the index moved by the direction and not wrapped
NewIndex_NoWrap(currentIndex, direction, totalImages) ==
    currentIndex + direction

\* the index navigateCarousel(button, direction) records
NewIndex(currentIndex, direction, totalImages) ==
    LET n1 == currentIndex + direction
        n2 == IF n1 < 0 THEN totalImages - 1 ELSE n1
    IN  IF n2 >= totalImages THEN 0 ELSE n2

\* the prev (direction = -1) or next (direction = 1) button of card i
navigateCarousel(i, direction) ==
    /\ CardsVisible
    /\ i \in 1..Len(resultsContainer)
    /\ LET newIndex == NewIndex(resultsContainer[i].current, direction,
                                resultsContainer[i].images)
       IN  resultsContainer' =
             [resultsContainer EXCEPT
                ![i].current = newIndex,
                ![i].active = ActiveDots(resultsContainer[i].images, newIndex)]
    /\ UNCHANGED <<uiVars, noResults, allResults, currentResults,
                   currentPage, timerVars, tagVars, cardVars, modalVars, reqVars>>

\* mouseenter (paused = TRUE) / mouseleave (paused = FALSE) on card i; only
\* cards whose startAutoAdvance did not return early listen
Hover(i, paused) ==
    /\ CardsVisible
    /\ i \in 1..Len(resultsContainer)
    /\ resultsContainer[i].closure # 0
    /\ closures' = [closures EXCEPT
                      ![resultsContainer[i].closure].isPaused = paused]
    /\ UNCHANGED <<uiVars, resultVars, autoAdvanceTimeouts,
                   autoAdvanceIntervals, tagVars, cardVars, modalVars, reqVars>>

\* advanceImage of closure c, not paused: the closure's own index moves on
\* and is written to its card (which may have left the container)
AdvancedIndex(c) == (closures[c].currentIndex + 1) % closures[c].totalImages

AdvancedCards(c) ==
    [i \in 1..Len(resultsContainer) |->
        IF resultsContainer[i].closure = c
        THEN [resultsContainer[i] EXCEPT
                !.current = AdvancedIndex(c),
                !.active = ActiveDots(closures[c].totalImages,
                                      AdvancedIndex(c))]
        ELSE resultsContainer[i]]

\* the callback of the initial 5 s timeout of closure c
TimeoutFires(c) ==
    /\ c \in DOMAIN closures
    /\ closures[c].phase = "timeout"
    /\ IF closures[c].isPaused
       THEN /\ closures' = Collect([closures EXCEPT ![c].phase = "dead"],
                                   resultsContainer)
            /\ autoAdvanceTimeouts' = Expire(autoAdvanceTimeouts, c)
            /\ UNCHANGED autoAdvanceIntervals
       ELSE /\ closures' = [closures EXCEPT ![c].phase = "interval"]
            /\ autoAdvanceTimeouts' = Expire(autoAdvanceTimeouts, c)
            /\ autoAdvanceIntervals' =
                 MapSet(autoAdvanceIntervals, closures[c].code, c)
    /\ UNCHANGED <<uiVars, resultVars, tagVars, cardVars, modalVars, reqVars>>

\* one tick of the 3 s interval of closure c
IntervalFires(c) ==
    /\ c \in DOMAIN closures
    /\ closures[c].phase = "interval"
    /\ IF closures[c].isPaused
       THEN UNCHANGED <<resultsContainer, timerVars>>
       ELSE /\ resultsContainer' = AdvancedCards(c)
            /\ IF AdvancedIndex(c) = 0
               THEN /\ closures' = [closures EXCEPT
                                      ![c].currentIndex = 0,
                                      ![c].phase = "cycle"]
                    /\ autoAdvanceIntervals' =
                         MapDelete(autoAdvanceIntervals, closures[c].code)
                    /\ autoAdvanceTimeouts' =
                         MapSet(autoAdvanceTimeouts, closures[c].code, c)
               ELSE /\ closures' = [closures EXCEPT
                                      ![c].currentIndex = AdvancedIndex(c)]
                    /\ UNCHANGED <<autoAdvanceTimeouts, autoAdvanceIntervals>>
    /\ UNCHANGED <<uiVars, noResults, allResults, currentResults,
                   currentPage, tagVars, cardVars, modalVars, reqVars>>

\* the callback of the 5 s timeout between two cycles of closure c
CycleFires(c) ==
    /\ c \in DOMAIN closures
    /\ closures[c].phase = "cycle"
    /\ IF closures[c].isPaused
       THEN /\ closures' = Collect([closures EXCEPT ![c].phase = "dead"],
                                   resultsContainer)
            /\ autoAdvanceTimeouts' = Expire(autoAdvanceTimeouts, c)
       ELSE /\ closures' = [closures EXCEPT ![c].phase = "timeout"]
            /\ autoAdvanceTimeouts' =
                 MapSet(Expire(autoAdvanceTimeouts, c), closures[c].code, c)
    /\ UNCHANGED <<uiVars, resultVars, autoAdvanceIntervals, tagVars, cardVars, modalVars, reqVars>>

\* --------------------------------------------------------------- tags
\* the hardcoded list loadTags falls back to
FallbackTags ==
    << <<"abstract">>, <<"art">>, <<"photorealistic">>, <<"portrait">>,
       <<"minimalist">>, <<"design">>, <<"nature">>, <<"landscape">>,
       <<"geometric">>, <<"patterns">>, <<"colorful">>, <<"painting">>,
       <<"dark">>, <<"moody">>, <<"atmosphere">> >>

\* tags of the curated list the /tags endpoint serves
CuratedTags ==
    << <<"painting">>, <<"illustration">>, <<"drawing">>, <<"poster">>,
       <<"white">>, <<"blue">>, <<"black">>, <<"red">>, <<"green">>,
       <<"pink">> >>

\* data.tags of an OK answer: a prefix of the curated list, or a list that
\* names a tag twice
TagLists ==
    {SubSeq(CuratedTags, 1, n) : n \in 0..MaxTags}
        \cup {<<CuratedTags[1], CuratedTags[2], CuratedTags[1]>>}

\* how the /tags request can fail: fetch or json() throws, a non-OK status
\* with or without an error string, an OK body without a tag list
TagFailures == {"throw", "error", "status", "unusable"}

\* displayTags
FirstTags(tags) == Slice(tags, 0, DisplayedTagCount)

\* the rest of loadTags once the fetch has settled
LoadTagsResponded(tags) ==
    /\ tagsPc = "fetching"
    /\ availableTags' = tags
    /\ displayedTags' = FirstTags(tags)
    /\ tagsPc' = "done"
    /\ UNCHANGED <<uiVars, resultVars, timerVars, reqVars, cardVars, modalVars>>

\* a catch block that only logs
LoadTagsFailed_LogOnly(failure) ==
    /\ tagsPc = "fetching"
    /\ tagsPc' = "done"
    /\ UNCHANGED <<availableTags, displayedTags, uiVars, resultVars,
                   timerVars, reqVars, cardVars, modalVars>>

LoadTagsFailed(failure) ==
    /\ tagsPc = "fetching"
    /\ availableTags' = FallbackTags
    /\ displayedTags' = FirstTags(FallbackTags)
    /\ tagsPc' = "done"
    /\ UNCHANGED <<uiVars, resultVars, timerVars, reqVars, cardVars, modalVars>>

\* a[i] = a[j] alone: the second half of the swap is lost
Swap_Overwrite(a, i, j) == [a EXCEPT ![i + 1] = a[j + 1]]

\* [a[i], a[j]] = [a[j], a[i]] on a 0-based array
Swap(a, i, j) ==
    [a EXCEPT ![i + 1] = a[j + 1], ![j + 1] = a[i + 1]]

\* Math.floor(Math.random() * (i + 1)) when Math.random() is k / RandomGrain
RandomIndex(k, i) == (k * (i + 1)) \div RandomGrain

\* the loop of shuffleExamples from index i down to 1; rand[i] is the value
\* Math.random() returns in the iteration for i
RECURSIVE FisherYates(_, _, _)
FisherYates(shuffled, i, rand) ==
    IF i > 0
    THEN FisherYates(Swap(shuffled, i, RandomIndex(rand[i], i)), i - 1, rand)
    ELSE shuffled

Shuffled(tags, rand) == FisherYates(tags, Len(tags) - 1, rand)

RandomRuns(n) == [1..(n - 1) -> 0..(RandomGrain - 1)]

\* the tags taken from index 1 on
TakeShuffled_FromOne(shuffled) == Slice(shuffled, 1, DisplayedTagCount)

\* shuffled.slice(0, 6)
TakeShuffled(shuffled) == Slice(shuffled, 0, DisplayedTagCount)

\* the catalog itself shuffled, not a copy of it
shuffleExamples_InPlace(rand) ==
    /\ Len(availableTags) <= MaxTags
    /\ IF Len(availableTags) = 0
       THEN UNCHANGED <<availableTags, displayedTags>>
       ELSE /\ availableTags' = Shuffled(availableTags, rand)
            /\ displayedTags' = TakeShuffled(Shuffled(availableTags, rand))
    /\ UNCHANGED <<tagsPc, uiVars, resultVars, timerVars,
                   reqVars, cardVars, modalVars>>

\* the shuffle button; lists longer than MaxTags are not shuffled here
shuffleExamples(rand) ==
    /\ Len(availableTags) <= MaxTags
    /\ IF Len(availableTags) = 0
       THEN UNCHANGED displayedTags
       ELSE displayedTags' = TakeShuffled(Shuffled(availableTags, rand))
    /\ UNCHANGED <<availableTags, tagsPc, uiVars, resultVars, timerVars,
                   reqVars, cardVars, modalVars>>

\* -------------------------------------------------------- image modal
\* A modal is one call of openImageModal that got past its early returns:
\* the images it made, the index its closure holds, whether its element is a
\* child of document.body and whether its keyHandler is registered on the
\* document.  Modals are kept in the order their handlers were registered; a
\* modal that is neither in the body nor listening is forgotten.
Keys == {"Escape", "ArrowLeft", "ArrowRight"}

\* allResults.find((r) => r.sref_code === srefCode): its result, as a list
\* of none or one
Find(all, srefCode) ==
    LET Is(r) == r.sref_code = srefCode
        found == SelectSeq(all, Is)
    IN  IF found = <<>> THEN <<>> ELSE <<Head(found)>>

NewModal(result, srcs, startIndex) ==
    [code |-> result.sref_code, srcs |-> srcs, currentIndex |-> startIndex,
     inBody |-> TRUE, keyHandler |-> TRUE]

Forget(ms) ==
    LET Alive(m) == m.inBody \/ m.keyHandler
    IN  SelectSeq(ms, Alive)

\* the page under a modal in the body cannot be clicked
ModalShown == \E k \in 1..Len(modals) : modals[k].inBody

\* images made from the text of the search field
openImageModal_FromInput(i, startIndex) ==
    /\ CardsVisible /\ ~ModalShown
    /\ i \in 1..Len(resultsContainer)
    /\ startIndex \in 0..(resultsContainer[i].images - 1)
    /\ Len(modals) < MaxModals
    /\ LET found == Find(allResults, resultsContainer[i].sref_code)
       IN  IF found = <<>> THEN UNCHANGED modals
           ELSE modals' = Append(modals,
                                 NewModal(found[1], ImageUrls(<<searchInput>>),
                                          startIndex))
    /\ UNCHANGED <<uiVars, resultVars, timerVars, tagVars, reqVars, cardVars,
                   uncaughtError>>

\* a click on image startIndex (0-based) of card i
openImageModal(i, startIndex) ==
    /\ CardsVisible /\ ~ModalShown
    /\ i \in 1..Len(resultsContainer)
    /\ startIndex \in 0..(resultsContainer[i].images - 1)
    /\ Len(modals) < MaxModals
    /\ LET found == Find(allResults, resultsContainer[i].sref_code)
       IN  IF found = <<>> THEN UNCHANGED modals
           ELSE modals' = Append(modals,
                                 NewModal(found[1],
                                          ImageUrls(found[1].thumbnails),
                                          startIndex))
    /\ UNCHANGED <<uiVars, resultVars, timerVars, tagVars, reqVars, cardVars,
                   uncaughtError>>

\* showImage(index) in the closure of a modal
showImage(m, index) == [m EXCEPT !.currentIndex = index]

nextImage(m) == showImage(m, (m.currentIndex + 1) % Len(m.srcs))

prevImage(m) ==
    showImage(m, (m.currentIndex - 1 + Len(m.srcs)) % Len(m.srcs))

\* the arrows (direction = -1, 1) of the modal shown
ModalArrow(k, direction) ==
    /\ k \in 1..Len(modals)
    /\ modals[k].inBody
    /\ modals' = [modals EXCEPT
                    ![k] = IF direction = 1 THEN nextImage(@) ELSE prevImage(@)]
    /\ UNCHANGED <<uiVars, resultVars, timerVars, tagVars, reqVars, cardVars,
                   uncaughtError>>

\* the close button of the modal shown, or a click on its background:
\* document.body.removeChild(modal) and nothing else
CloseModal(k) ==
    /\ k \in 1..Len(modals)
    /\ modals[k].inBody
    /\ modals' = Forget([modals EXCEPT ![k].inBody = FALSE])
    /\ UNCHANGED <<uiVars, resultVars, timerVars, tagVars, reqVars, cardVars,
                   uncaughtError>>

\* keyHandler of modal m on a keydown; removeChild throws NotFoundError when
\* the modal is not a child of the body, which ends the handler
keyHandler(m, key) ==
    IF key = "Escape"
    THEN IF m.inBody
         THEN [modal |-> [m EXCEPT !.inBody = FALSE, !.keyHandler = FALSE],
               threw |-> FALSE]
         ELSE [modal |-> m, threw |-> TRUE]
    ELSE IF key = "ArrowLeft" THEN [modal |-> prevImage(m), threw |-> FALSE]
    ELSE [modal |-> nextImage(m), threw |-> FALSE]

\* a keydown on the document: every registered keyHandler runs
KeyDown(key) ==
    LET ran == [k \in 1..Len(modals) |->
                  IF modals[k].keyHandler THEN keyHandler(modals[k], key)
                  ELSE [modal |-> modals[k], threw |-> FALSE]]
    IN  /\ modals' = Forget([k \in 1..Len(modals) |-> ran[k].modal])
        /\ uncaughtError' =
             (uncaughtError \/ \E k \in 1..Len(modals) : ran[k].threw)
        /\ UNCHANGED <<uiVars, resultVars, timerVars, tagVars, reqVars,
                       cardVars>>

\* ------------------------------------------------------- card tags
\* createResultCard calls extractTags on the summary of the result; one card
\* is looked at on its own
extractCardTags(phrases, tail) ==
    /\ summary = <<>>
    /\ themes' = phrases
    /\ summary' = SummaryText(phrases, tail)
    /\ cardTags' = extractTags(SummaryText(phrases, tail))
    /\ UNCHANGED <<uiVars, resultVars, timerVars, tagVars, reqVars, modalVars>>

\* ------------------------------------------------------------- Spec
\* searching, finding similar styles and paging
SearchNext ==
    \/ \E s \in Strings : TypeInput(s)
    \/ FocusInput
    \/ ClickSearch
    \/ \E tag \in Strings : searchByTag(tag)
    \/ \E i \in 1..MaxRequests, results \in SearchResults :
          SearchResponded(i, results)
    \/ \E i \in 1..MaxRequests, failure \in Failures : SearchFailed(i, failure)
    \/ \E i \in 1..MaxClick : findSimilarSREFs(i)
    \/ \E i \in 1..MaxRequests :
          \E results \in SimilarResults(IF i <= Len(pending)
                                        THEN pending[i].ref ELSE 0) :
             SimilarResponded(i, results)
    \/ \E i \in 1..MaxRequests, failure \in Failures : SimilarFailed(i, failure)
    \/ previousPage
    \/ nextPage

\* the carousels of the cards shown and their timers
CarouselNext ==
    \/ \E i \in 1..MaxClick, direction \in {-1, 1} :
          navigateCarousel(i, direction)
    \/ \E i \in 1..MaxClick, paused \in BOOLEAN : Hover(i, paused)
    \/ \E c \in ClosureIds : TimeoutFires(c)
    \/ \E c \in ClosureIds : IntervalFires(c)
    \/ \E c \in ClosureIds : CycleFires(c)

\* the example tags
TagNext ==
    \/ \E tags \in TagLists : LoadTagsResponded(tags)
    \/ \E failure \in TagFailures : LoadTagsFailed(failure)
    \/ \E rand \in RandomRuns(Len(availableTags)) : shuffleExamples(rand)

Next == SearchNext \/ CarouselNext

\* the result page: searches, cards and timers
Spec == Init /\ [][Next]_vars

\* searches alone: no carousel is touched and no timer fires
SearchSpec == Init /\ [][SearchNext]_vars

\* the example tags alone
TagSpec == Init /\ [][TagNext]_vars

\* the example tags as loaded and the tags of the cards, clicked
TagClickNext ==
    \/ \E tags \in TagLists : LoadTagsResponded(tags)
    \/ \E failure \in TagFailures : LoadTagsFailed(failure)
    \/ \E k \in 1..MaxClick : ClickExampleTag(k)
    \/ \E i \in 1..MaxClick, k \in 1..MaxClick : ClickCardTag(i, k)
    \/ \E i \in 1..MaxRequests, results \in SearchResults :
          SearchResponded(i, results)
    \/ \E i \in 1..MaxRequests, failure \in Failures : SearchFailed(i, failure)

TagClickSpec == Init /\ [][TagClickNext]_vars

\* searches from the field, and the image modal of the cards shown
ModalNext ==
    \/ \E str \in Strings : TypeInput(str)
    \/ ClickSearch
    \/ \E i \in 1..MaxRequests, results \in SearchResults :
          SearchResponded(i, results)
    \/ \E i \in 1..MaxClick, startIndex \in 0..(ThumbCount(1) - 1) :
          openImageModal(i, startIndex)
    \/ \E k \in 1..MaxModals, direction \in {-1, 1} : ModalArrow(k, direction)
    \/ \E k \in 1..MaxModals : CloseModal(k)
    \/ \E key \in Keys : KeyDown(key)

ModalSpec == Init /\ [][ModalNext]_vars

\* searches from the field, the pointer over the cards shown and their
\* timers; a timer that is pending fires in the end
HoverNext ==
    \/ \E str \in Strings : TypeInput(str)
    \/ ClickSearch
    \/ \E i \in 1..MaxRequests, results \in SearchResults :
          SearchResponded(i, results)
    \/ \E i \in 1..MaxClick, paused \in BOOLEAN : Hover(i, paused)
    \/ \E c \in ClosureIds : TimeoutFires(c)
    \/ \E c \in ClosureIds : IntervalFires(c)
    \/ \E c \in ClosureIds : CycleFires(c)

TimersFire ==
    \A c \in ClosureIds :
        /\ WF_vars(TimeoutFires(c))
        /\ WF_vars(IntervalFires(c))
        /\ WF_vars(CycleFires(c))

HoverSpec == Init /\ [][HoverNext]_vars /\ TimersFire

\* one request at a time: a search or a similar search is started only when
\* no request is in flight, and pages are turned while the results are shown
SequentialNext ==
    \/ \E str \in Strings : TypeInput(str)
    \/ pending = <<>> /\ ClickSearch
    \/ \E i \in 1..MaxRequests, results \in SearchResults :
          SearchResponded(i, results)
    \/ \E i \in 1..MaxClick : pending = <<>> /\ findSimilarSREFs(i)
    \/ \E i \in 1..MaxRequests :
          \E results \in SimilarResults(IF i <= Len(pending)
                                        THEN pending[i].ref ELSE 0) :
             SimilarResponded(i, results)
    \/ ~resultsHidden /\ previousPage
    \/ ~resultsHidden /\ nextPage
    \/ \E i \in 1..MaxClick, paused \in BOOLEAN : Hover(i, paused)
    \/ \E c \in ClosureIds : TimeoutFires(c)
    \/ \E c \in ClosureIds : IntervalFires(c)
    \/ \E c \in ClosureIds : CycleFires(c)

SequentialSpec == Init /\ [][SequentialNext]_vars

\* the carousels of the first cards of a page: the arrows of a card are
\* clicked while its timers run
CarouselClickNext ==
    \/ \E str \in Strings : TypeInput(str)
    \/ ClickSearch
    \/ \E i \in 1..MaxRequests, results \in SearchResults :
          SearchResponded(i, results)
    \/ previousPage
    \/ nextPage
    \/ \E i \in 1..MaxNavigate, direction \in {-1, 1} :
          navigateCarousel(i, direction)
    \/ \E c \in ClosureIds : TimeoutFires(c)
    \/ \E c \in ClosureIds : IntervalFires(c)
    \/ \E c \in ClosureIds : CycleFires(c)

CarouselSpec == Init /\ [][CarouselClickNext]_vars

\* the tags of a card alone
ExtractNext ==
    /\ summary = <<>>
    /\ \E phrases \in ThemeLists, tail \in SummaryTails :
          extractCardTags(phrases, tail)

ExtractSpec == Init /\ [][ExtractNext]_vars

\* ============================================================== claims
Codes_(results) == {results[i].sref_code : i \in 1..Len(results)}

Count(seq, x) == Cardinality({i \in 1..Len(seq) : seq[i] = x})

Range(seq) == {seq[i] : i \in 1..Len(seq)}

\* a text that is empty or holds white space only
Blank(s) == \A i \in 1..Len(s) : IsSpace(s[i])

\* a step of performSearch that found its query falsy and returned
RejectedSearch ==
    \/ ClickSearch /\ ~Truthy(SearchQuery(searchInput, <<>>))
    \/ \E tag \in Strings : searchByTag(tag) /\ ~Truthy(SearchQuery(tag, tag))

\* C1: whenever performSearch is invoked with query text that is empty or
\* only white space, typed into the search field or passed as the query
\* argument by a tag click, no request is sent and the "Please enter a
\* search term" message is shown.
C1_BlankQueryRejected ==
    [][/\ (ClickSearch /\ Blank(searchInput))
           => (pending' = pending /\ issued' = issued /\ ~errorHidden'
               /\ errorText' = EmptyQueryMessage)
       /\ \A tag \in Strings :
            (searchByTag(tag) /\ Blank(tag))
              => (pending' = pending /\ issued' = issued /\ ~errorHidden'
                  /\ errorText' = EmptyQueryMessage)]_vars

\* C2: a rejected blank search leaves allResults, currentPage,
\* currentResults, the container, the visibility of the results section, of
\* the loading indicator and of the pagination, every closure and timer and
\* the requests in flight as they were; only the error message changes.
C2_RejectedSearchFrame ==
    [][RejectedSearch
         => /\ ~errorHidden' /\ errorText' = EmptyQueryMessage
            /\ UNCHANGED <<loadingHidden, resultsHidden, paginationHidden,
                           prevDisabled, nextDisabled, paginationInfo,
                           resultsTitle, resultVars, timerVars, reqVars>>]_vars

\* a blank search was rejected while results are on screen and a timer of a
\* card is pending
C2_Witness ==
    /\ errorText = EmptyQueryMessage /\ ~errorHidden
    /\ ~resultsHidden /\ loadingHidden
    /\ \E c \in DOMAIN closures : closures[c].phase # "dead"

\* C3: while the page shows "Similar to X", neither allResults (the list
\* before it is cut into pages) nor any card shown has code X.
C3_ReferenceExcluded ==
    resultsTitle.kind = "similar"
      => /\ resultsTitle.ref \notin Codes_(allResults)
         /\ resultsTitle.ref \notin Codes_(resultsContainer)

\* the results similar to X are shown, on more than one page
C3_Witness ==
    /\ resultsTitle.kind = "similar"
    /\ ~resultsHidden
    /\ Len(allResults) > resultsPerPage
    /\ resultsContainer # <<>>

\* the entries of allResults at the 0-based indices first..last
Entries(first, last) == [i \in 1..(last - first + 1) |-> allResults[first + i]]

RECURSIVE PagesUpTo(_)
PagesUpTo(p) ==
    IF p = 0 THEN <<>> ELSE PagesUpTo(p - 1) \o PageSlice(allResults, p)

\* C4: with n > 0 results, the page shown is page p of ceil(n / 9), it holds
\* exactly the entries (p-1)*9 .. min(p*9, n)-1 of allResults in the order
\* received, one card each, and the pages 1..ceil(n / 9) put one after the
\* other are allResults.
C4_PagesPartitionResults ==
    Len(allResults) > 0
      => /\ currentPage \in 1..Ceil(Len(allResults), 9)
         /\ currentResults =
              Entries((currentPage - 1) * 9,
                      Min(currentPage * 9, Len(allResults)) - 1)
         /\ Len(resultsContainer) = Len(currentResults)
         /\ \A i \in 1..Len(currentResults) :
               resultsContainer[i].sref_code = currentResults[i].sref_code
         /\ PagesUpTo(Ceil(Len(allResults), 9)) = allResults

\* the third page of a list of more than 18 results is shown
C4_Witness ==
    /\ currentPage = 3
    /\ Len(allResults) > 18
    /\ Len(currentResults) = Len(allResults) - 18
    /\ ~resultsHidden

\* C5: however the /tags request fails, loadTags ends normally with the 15
\* built-in tags in availableTags and the first 6 of them displayed.
C5_FallbackOnFailure ==
    [][\A failure \in TagFailures :
         LoadTagsFailed(failure)
           => /\ tagsPc' = "done"
              /\ Len(availableTags') = 15
              /\ availableTags' = FallbackTags
              /\ displayedTags' =
                   << <<"abstract">>, <<"art">>, <<"photorealistic">>,
                      <<"portrait">>, <<"minimalist">>, <<"design">> >>]_vars

FallbackLoaded == tagsPc = "done" /\ availableTags = FallbackTags

\* the /tags request failed and the fallback is displayed
C5_Witness == FallbackLoaded /\ Len(displayedTags) = 6

\* C6: once the tags are loaded, and after any shuffle, displayedTags has
\* min(6, |availableTags|) entries and shows no tag more often than
\* availableTags holds it: each entry comes from a position of its own.
C6_DrawnWithoutReplacement ==
    tagsPc = "done"
      => /\ Len(displayedTags) = Min(6, Len(availableTags))
         /\ \A t \in Range(displayedTags) :
               Count(displayedTags, t) <= Count(availableTags, t)

\* a shuffle of more than 6 tags brought up a tag that was not shown before
C6_Witness ==
    /\ tagsPc = "done"
    /\ Len(availableTags) > 6
    /\ Len(displayedTags) = 6
    /\ \E t \in Range(displayedTags) : t \notin Range(FirstTags(availableTags))

\* C7: with fewer than 6 tags loaded, displayedTags is a permutation of
\* availableTags, before and after any shuffle.
C7_SmallCatalogShownWhole ==
    (tagsPc = "done" /\ Len(availableTags) < 6)
      => /\ Len(displayedTags) = Len(availableTags)
         /\ \A t \in Range(availableTags) \cup Range(displayedTags) :
               Count(displayedTags, t) = Count(availableTags, t)

\* a shuffle of fewer than 6 tags changed their order
C7_Witness ==
    /\ tagsPc = "done"
    /\ Len(availableTags) \in 2..5
    /\ displayedTags # availableTags

\* C8: the index recorded for the carousel of a card is never negative and
\* never past the last image, also for a card without images.
C8_CarouselIndexValid ==
    \A i \in 1..Len(resultsContainer) :
        LET card == resultsContainer[i]
        IN  /\ card.current >= 0
            /\ card.current <= (IF card.images = 0 THEN 0 ELSE card.images - 1)

\* C9: every auto-advance step of a card in the container moves its carousel
\* from the image shown to the next one in thumbnail order, wrapping from
\* the last to the first.
C9_AdvanceFromShownImage ==
    [][\A c \in ClosureIds :
         (IntervalFires(c) /\ ~closures[c].isPaused)
           => \A i \in 1..Len(resultsContainer) :
                 resultsContainer[i].closure = c
                   => resultsContainer'[i].current =
                        (resultsContainer[i].current + 1)
                            % resultsContainer[i].images]_vars

\* C10: when a /search request fails and no other request is in flight,
\* the error message is visible, the results section is hidden and the
\* loading indicator is hidden.
C10_FailedSearchShowsNoResults ==
    [][\A i \in 1..MaxRequests, failure \in Failures :
         (SearchFailed(i, failure) /\ Len(pending) = 1)
           => (~errorHidden' /\ resultsHidden' /\ loadingHidden')]_vars

C12_CauseNotShown ==
    /\ ServerError \notin Range(errorText)
    /\ NetworkError \notin Range(errorText)

\* the first word of a theme phrase: its first token that is not a blank
ThemeWord(phrase) ==
    IF \A i \in 1..Len(phrase) : phrase[i] = " " THEN <<>>
    ELSE LET first == CHOOSE i \in 1..Len(phrase) :
                         /\ phrase[i] # " "
                         /\ \A j \in 1..(i - 1) : phrase[j] = " "
         IN  <<phrase[first]>>

\* the words of more than 2 characters among the first words of the themes
RECURSIVE LongThemeWords(_)
LongThemeWords(phrases) ==
    IF phrases = <<>> THEN <<>>
    ELSE LET word == ThemeWord(Head(phrases))
         IN  (IF TextLength(word) > 2 THEN <<word>> ELSE <<>>)
                \o LongThemeWords(Tail(phrases))

\* C13: for the summary "Key themes: p1, p2, ..." the tags of the card are,
\* in the order of the summary, the first words of the phrases without their
\* counts, those of 2 or fewer characters left out, and of the words that
\* remain the first 5.
C13_TagsFromThemes ==
    (summary # <<>> /\ themes # <<>>)
      => LET kept == LongThemeWords(themes)
         IN  /\ Len(cardTags) = Min(5, Len(kept))
             /\ \A i \in 1..Len(cardTags) : cardTags[i] = kept[i]

\* six themes with a word of two characters among the first five: the word
\* of the sixth theme is the fifth tag
C13_Witness ==
    /\ Len(themes) = 6
    /\ \E i \in 1..5 : ThemeWord(themes[i]) = <<"3d">>
    /\ ThemeWord(themes[6]) = <<"ink">>
    /\ Len(cardTags) = 5 /\ cardTags[5] = <<"ink">>
    /\ Newline \in Range(summary)

\* this step sets the search field to `tag` and sends one more request, a
\* /search for `tag`
SearchesFor(tag) ==
    /\ searchInput' = tag
    /\ Len(pending') = Len(pending) + 1
    /\ SubSeq(pending', 1, Len(pending)) = pending
    /\ pending'[Len(pending')].kind = "search"
    /\ pending'[Len(pending')].query = tag

\* C14: a click on an example tag shown, or on a tag of a card shown, sets
\* the search field to the tag and issues exactly one /search request, whose
\* query is the tag.
C14_TagClickSearches ==
    [][/\ \A k \in 1..MaxClick :
            ClickExampleTag(k) => SearchesFor(displayedTags[k])
       /\ \A i \in 1..MaxClick, k \in 1..MaxClick :
            ClickCardTag(i, k) => SearchesFor(resultsContainer[i].tags[k])]_vars

\* the results of a search for an example tag were shown and a tag of the
\* first card was clicked: the search for it is in flight
C14_Witness ==
    /\ resultsTitle.kind = "results"
    /\ resultsTitle.query \in Range(displayedTags)
    /\ Len(pending) = 1 /\ pending[1].query = <<"art">>
    /\ searchInput = <<"art">>
    /\ ~loadingHidden /\ resultsHidden

\* the URLs of the thumbnails of the results in `all`
ReceivedUrls(all) ==
    UNION {Range(ImageUrls(all[i].thumbnails)) : i \in 1..Len(all)}

\* C15: after every step, the src of every image of a card is
\* "/static/images/" followed by a thumbnail of a result in allResults, and
\* so is the src of every image of a modal at the moment it is opened.
C15_ImagesFromResults ==
    [][/\ LET received == ReceivedUrls(allResults')
          IN  \A i \in 1..Len(resultsContainer') :
                 Range(resultsContainer'[i].srcs) \subseteq received
       /\ \A i \in 1..MaxClick, startIndex \in 0..(ThumbCount(1) - 1) :
            (openImageModal(i, startIndex) /\ Len(modals') > Len(modals))
              => Range(modals'[Len(modals')].srcs)
                    \subseteq ReceivedUrls(allResults)]_vars

\* the modal of the first card is open on its third image while text is in
\* the search field
C15_Witness ==
    /\ searchInput = <<"a">>
    /\ resultsContainer # <<>>
    /\ Len(modals) = 1 /\ modals[1].inBody
    /\ Len(modals[1].srcs) = 3 /\ modals[1].currentIndex = 2
    /\ modals[1].srcs[3] = <<"/static/images/", <<1, 3>> >>

\* C20: a modal that is no longer in the body has no keyHandler registered,
\* and no key press ends in an exception.
C20_ClosedModalDeaf ==
    /\ \A k \in 1..Len(modals) : modals[k].keyHandler => modals[k].inBody
    /\ ~uncaughtError

\* pending[i] is the only request in flight or the one issued last of them,
\* a request issued after it has completed already, and results that came
\* after every request was issued are on screen
Overtaken(i) ==
    /\ i \in 1..Len(pending)
    /\ pending[i].id < issued
    /\ ~resultsHidden
    /\ \A j \in 1..Len(pending) : pending[j].id <= pending[i].id

\* C16: the answer to a request that a later request has overtaken does not
\* replace the title of the results, so that once every request has
\* completed the page shows what the request issued last brought.
C16_LatestRequestWins ==
    [][\A i \in 1..MaxRequests :
         /\ \A results \in SearchResults :
               (SearchResponded(i, results) /\ Overtaken(i))
                 => UNCHANGED resultsTitle
         /\ (Overtaken(i) /\ pending[i].kind = "similar")
               => \A results \in SimilarResults(pending[i].ref) :
                     SimilarResponded(i, results)
                       => UNCHANGED resultsTitle]_vars

\* C17: every closure with a timer pending belongs to a card in the results
\* container.
C17_TimersOfShownCards ==
    \A c \in DOMAIN closures :
        closures[c].phase # "dead"
          => \E i \in 1..Len(resultsContainer) : resultsContainer[i].closure = c

\* C18: the loading indicator is visible exactly while a request is in
\* flight.
C18_LoadingWhileInFlight == ~loadingHidden <=> pending # <<>>

\* the card of closure c is shown and the pointer is not over it
Away(c) ==
    /\ CardsVisible
    /\ c \in DOMAIN closures
    /\ ~closures[c].isPaused
    /\ \E i \in 1..Len(resultsContainer) : resultsContainer[i].closure = c

\* C19: if from some moment on a card of 2 or more images stays shown with
\* the pointer away from it, its carousel advances again and again.
C19_HoverOnlyPauses ==
    \A c \in ClosureIds :
        <>[]Away(c) => []<><<IntervalFires(c)>>_vars

\* the pages a list of n results is cut into
LastPage(n) == IF n = 0 THEN 1 ELSE Ceil(n, 9)

\* C21: after every step 1 <= currentPage <= max(1, ceil(|allResults| / 9));
\* a click on Previous at page 1 and a click on Next at the last page, or
\* with no results, change nothing.
C21_CurrentPageInRange ==
    [][/\ currentPage' \in 1..LastPage(Len(allResults'))
       /\ (previousPage /\ currentPage = 1) => UNCHANGED vars
       /\ (nextPage /\ currentPage >= LastPage(Len(allResults)))
             => UNCHANGED vars]_vars

\* after page 2 of a long list an answer without results came: the
\* Previous button can be clicked although the page is the first
C21_Witness ==
    /\ currentPage = 1 /\ allResults = <<>> /\ noResults
    /\ ~resultsHidden
    /\ ~paginationHidden /\ ~prevDisabled

\* C22: while the results section is visible, the pagination controls are
\* visible exactly when allResults has more than 9 entries.
C22_PaginationWhenNeeded ==
    ~resultsHidden => (~paginationHidden <=> Len(allResults) > 9)

\* C23: while the pagination controls (and the results section) are
\* visible, Previous is disabled exactly at page 1, Next exactly at the last
\* page, and the label is "Page currentPage of ceil(|allResults| / 9)".
C23_PaginationState ==
    (~paginationHidden /\ ~resultsHidden)
      => /\ prevDisabled <=> currentPage = 1
         /\ nextDisabled <=> currentPage = Ceil(Len(allResults), 9)
         /\ paginationInfo = <<currentPage, Ceil(Len(allResults), 9)>>

\* this step shows the first (up to) 9 entries of `results` as page 1
ShowsFirstPageOf(results) ==
    /\ allResults' = results
    /\ currentPage' = 1
    /\ Len(resultsContainer') = Min(9, Len(results))
    /\ \A k \in 1..Len(resultsContainer') :
          resultsContainer'[k].sref_code = results[k].sref_code

\* C24: the step in which an answer to /search or /similar arrives replaces
\* allResults by the results received, sets currentPage to 1 and shows the
\* first (up to) 9 of them.
C24_ResponseResetsPage ==
    [][\A i \in 1..MaxRequests :
         /\ \A results \in SearchResults :
               SearchResponded(i, results) => ShowsFirstPageOf(results)
         /\ (i <= Len(pending) /\ pending[i].kind = "similar")
               => \A results \in SimilarResults(pending[i].ref) :
                     SimilarResponded(i, results)
                       => ShowsFirstPageOf(results)]_vars

\* the results similar to the first card of page 3 are shown from their
\* first page
C24_Witness ==
    /\ resultsTitle.kind = "similar" /\ resultsTitle.ref = 2 * 9 + 1
    /\ ~resultsHidden
    /\ currentPage = 1 /\ Len(allResults) > 9
    /\ Len(resultsContainer) = 9 /\ resultsContainer[1].sref_code = 1

\* the timer closure c of `cl` has pending is held by the maps under the code
\* of its card
Recorded(cl, timeouts, intervals, c) ==
    LET code == cl[c].code
    IN  CASE cl[c].phase \in {"timeout", "cycle"} ->
               code \in DOMAIN timeouts /\ timeouts[code] = c
          [] cl[c].phase = "interval" ->
               code \in DOMAIN intervals /\ intervals[code] = c
          [] OTHER -> TRUE

\* C25: with one request at a time, after every step each pending timer is
\* recorded in autoAdvanceTimeouts or autoAdvanceIntervals under the code of
\* its card, and the step that starts a request (hideResults, which calls
\* stopAllAutoAdvance) leaves both maps empty and no timer pending.
C25_TimersRecordedAndStopped ==
    [][/\ \A c \in DOMAIN closures' :
            Recorded(closures', autoAdvanceTimeouts', autoAdvanceIntervals', c)
       /\ issued' > issued
            => /\ autoAdvanceTimeouts' = EmptyMap
               /\ autoAdvanceIntervals' = EmptyMap
               /\ \A c \in DOMAIN closures' : closures'[c].phase = "dead"]_vars

\* a request was started while the carousel of a card was advancing: its
\* timer is gone and the maps are empty
C25_Witness ==
    /\ pending # <<>> /\ resultsHidden
    /\ autoAdvanceTimeouts = EmptyMap /\ autoAdvanceIntervals = EmptyMap
    /\ \E c \in DOMAIN closures :
          /\ closures[c].phase = "dead"
          /\ closures[c].currentIndex > 0
          /\ ~closures[c].isPaused

\* the card at position i has at least one image
HasImages(cards, i) == i \in 1..Len(cards) /\ cards[i].images >= 1

\* C26: on every card with n >= 1 images the recorded current index is in
\* 0..n-1 and exactly the dot at that index is active, after every step;
\* the next button at index n-1 records 0 and the prev button at index 0
\* records n-1.
C26_CarouselWraps ==
    [][/\ \A i \in 1..Len(resultsContainer') :
            HasImages(resultsContainer', i)
               => /\ resultsContainer'[i].current
                        \in 0..(resultsContainer'[i].images - 1)
                  /\ resultsContainer'[i].active
                        = {resultsContainer'[i].current}
       /\ \A i \in 1..MaxNavigate :
            HasImages(resultsContainer, i)
               => /\ (/\ navigateCarousel(i, 1)
                      /\ resultsContainer[i].current
                            = resultsContainer[i].images - 1)
                        => resultsContainer'[i].current = 0
                  /\ (/\ navigateCarousel(i, -1)
                      /\ resultsContainer[i].current = 0)
                        => resultsContainer'[i].current
                             = resultsContainer[i].images - 1]_vars

\* the prev button took a card of three images from its first image to its
\* last, and a card of one image is on the page next to it
C26_Witness ==
    /\ Len(resultsContainer) >= 2
    /\ resultsContainer[1].images = 3
    /\ resultsContainer[1].current = 2
    /\ resultsContainer[1].active = {2}
    /\ closures[resultsContainer[1].closure].currentIndex = 0
    /\ resultsContainer[2].images = 1
    /\ resultsContainer[2].active = {0}

\* C27: the tags extracted from a summary without the label "Key themes:"
\* are exactly visual and style; the tags extracted from any summary are at
\* most 5 and each has more than 2 characters.
C27_TagsBounded ==
    summary # <<>>
      => /\ Label \notin Range(summary) => cardTags = <<<<"visual">>, <<"style">>>>
         /\ Len(cardTags) <= 5
         /\ \A i \in 1..Len(cardTags) : TextLength(cardTags[i]) > 2

\* a summary without the label, with a second line, gave the default tags
C27_Witness ==
    /\ summary # <<>>
    /\ Label \notin Range(summary)
    /\ Newline \in Range(summary)
    /\ cardTags = <<<<"visual">>, <<"style">>>>

\* C28: a step that is not the arrival of the tag list, that is a shuffle,
\* leaves availableTags as it was and changes nothing but displayedTags;
\* with an empty availableTags it changes nothing.
C28_ShuffleKeepsCatalog ==
    [][tagsPc' = tagsPc
         => /\ availableTags' = availableTags
            /\ UNCHANGED <<uiVars, resultVars, timerVars, reqVars, cardVars,
                           modalVars>>
            /\ availableTags = <<>> => UNCHANGED vars]_vars

\* the loaded catalog is in the order it arrived in while a shuffle shows
\* other tags than its first six
C28_Witness ==
    /\ tagsPc = "done"
    /\ availableTags \in TagLists
    /\ Len(availableTags) = MaxTags
    /\ displayedTags # FirstTags(availableTags)

====
